---- MODULE Spec2Model ----
(***************************************************************************)
(* Model of main.py (API INE Municipios): the text normalisation and the   *)
(* municipality matcher, the exclusion filter, the aggregation performed   *)
(* by get_datos_municipio (concurrent table listings, then the series      *)
(* fetches), the in-memory TTL cache and the /municipio endpoint.          *)
(*                                                                         *)
(* Text is a sequence of characters; a character is a one-symbol string.   *)
(* Accented letters are written with a two-symbol name: "a'" is U+00E1,    *)
(* "n~" is U+00F1, "u:" is U+00FC.  The combining marks (category Mn) are  *)
(* "+'" (U+0301), "+~" (U+0303) and "+:" (U+0308).                         *)
(***************************************************************************)
EXTENDS Integers, Sequences, FiniteSets, TLC

\* ------------------------------------------------------------------------
\* Characters
\* ------------------------------------------------------------------------

Minusculas ==
    <<"a","b","c","d","e","f","g","h","i","j","k","l","m",
      "n","o","p","q","r","s","t","u","v","w","x","y","z">>

Mayusculas ==
    <<"A","B","C","D","E","F","G","H","I","J","K","L","M",
      "N","O","P","Q","R","S","T","U","V","W","X","Y","Z">>

MinusculasAcentuadas == <<"a'","e'","i'","o'","u'","u:","n~">>

MayusculasAcentuadas == <<"A'","E'","I'","O'","U'","U:","N~">>

\* the base letter of each accented lower-case letter and its combining mark
BaseDeAcentuada == <<"a","e","i","o","u","u","n">>

MarcaDeAcentuada == <<"+'","+'","+'","+'","+'","+:","+~">>

Digitos == {"0","1","2","3","4","5","6","7","8","9"}

\* str.strip() and the regular expression class \s agree on these
Blancos == {" ", "TAB"}

Rango(s) == {s[i] : i \in 1..Len(s)}

Posicion(s, c) == CHOOSE i \in 1..Len(s) : s[i] = c

LetrasMinusculas == Rango(Minusculas)

LetrasMayusculas == Rango(Mayusculas) \cup Rango(MayusculasAcentuadas)

LetrasAcentuadas == Rango(MinusculasAcentuadas) \cup Rango(MayusculasAcentuadas)

LetrasAcentuadasPermitidas == Rango(MinusculasAcentuadas)

\* the lower-case letter of each upper-case letter
TablaLower ==
    [c \in LetrasMayusculas |->
        IF c \in Rango(Mayusculas) THEN Minusculas[Posicion(Mayusculas, c)]
        ELSE MinusculasAcentuadas[Posicion(MayusculasAcentuadas, c)]]

\* the canonical decomposition of each accented letter
TablaNFD ==
    [c \in LetrasAcentuadas |->
        IF c \in Rango(MinusculasAcentuadas)
        THEN LET i == Posicion(MinusculasAcentuadas, c)
             IN <<BaseDeAcentuada[i], MarcaDeAcentuada[i]>>
        ELSE LET i == Posicion(MayusculasAcentuadas, c)
             IN <<Mayusculas[Posicion(Minusculas, BaseDeAcentuada[i])],
                  MarcaDeAcentuada[i]>>]

\* str.lower() on one character
lower_c(c) == IF c \in LetrasMayusculas THEN TablaLower[c] ELSE c

\* unicodedata.normalize("NFD", c) on one character
nfd_c(c) == IF c \in LetrasAcentuadas THEN TablaNFD[c] ELSE <<c>>

\* unicodedata.category(c) == "Mn"
EsMn(c) == c \in {"+'", "+~", "+:"}

\* ------------------------------------------------------------------------
\* Text operations
\* ------------------------------------------------------------------------

lower(s) == [i \in 1..Len(s) |-> lower_c(s[i])]

RECURSIVE lstrip(_)
lstrip(s) ==
    IF s # <<>> /\ Head(s) \in Blancos THEN lstrip(Tail(s)) ELSE s

RECURSIVE rstrip(_)
rstrip(s) ==
    IF s # <<>> /\ s[Len(s)] \in Blancos THEN rstrip(SubSeq(s, 1, Len(s) - 1)) ELSE s

strip(s) == rstrip(lstrip(s))

RECURSIVE nfd(_)
nfd(s) == IF s = <<>> THEN <<>> ELSE nfd_c(Head(s)) \o nfd(Tail(s))

SinMarcas(s) == SelectSeq(s, LAMBDA c : ~EsMn(c))

\* def normalizar(texto)
normalizar(texto) ==
    IF texto = <<>> THEN <<>>
    ELSE SinMarcas(nfd(strip(lower(texto))))

\* the character class [a-z0-9áéíóúüñ\s-] of the two re.sub calls
Permitido(c) ==
    \/ c \in LetrasMinusculas
    \/ c \in Digitos
    \/ c \in LetrasAcentuadasPermitidas
    \/ c \in Blancos
    \/ c = "-"

\* re.sub(r"[^a-z0-9áéíóúüñ\s-]", " ", s)
SustituirNoPermitidos(s) ==
    [i \in 1..Len(s) |-> IF Permitido(s[i]) THEN s[i] ELSE " "]

\* re.sub(r"\s+", " ", s)
RECURSIVE ColapsarBlancos(_)
ColapsarBlancos(s) ==
    IF s = <<>> THEN <<>>
    ELSE IF Head(s) \in Blancos
         THEN <<" ">> \o ColapsarBlancos(lstrip(s))
         ELSE <<Head(s)>> \o ColapsarBlancos(Tail(s))

\* str.startswith
startswith(s, p) == Len(p) <= Len(s) /\ SubSeq(s, 1, Len(p)) = p

\* needle in haystack (substring test)
Contiene(s, p) ==
    \E i \in 0..(Len(s) - Len(p)) : SubSeq(s, i + 1, i + Len(p)) = p

Limpiar(s) == strip(ColapsarBlancos(SustituirNoPermitidos(normalizar(s))))

\* the prefix test without the space that ends the municipality
coincide_municipio_sin_espacio(nombre_serie, municipio) ==
    LET nombre == Limpiar(nombre_serie)
        muni == Limpiar(municipio)
    IN startswith(nombre, muni) \/ nombre = muni

\* def coincide_municipio(nombre_serie, municipio)
coincide_municipio(nombre_serie, municipio) ==
    LET nombre == Limpiar(nombre_serie)
        muni == Limpiar(municipio)
    IN startswith(nombre, muni \o <<" ">>) \/ nombre = muni


\* ------------------------------------------------------------------------
\* Configuration
\* ------------------------------------------------------------------------

\* TABLAS_MUNICIPALES, in the insertion order of the dict literal
TABLAS_MUNICIPALES ==
    << [indicador |-> "poblacion_municipio",  tabla |-> "29005"],
       [indicador |-> "indicadores_urbanos",  tabla |-> "69303"],
       [indicador |-> "hogares_vivienda",     tabla |-> "69302"],
       [indicador |-> "superficie_uso_suelo", tabla |-> "69305"] >>

NTablas == Len(TABLAS_MUNICIPALES)

FILTRO_EXCLUIR ==
    << <<"o","c","u","p","a","d","o","s">>,
       <<"c","o","n","s","u","m","o">>,
       <<"C","e","n","s","o">>,
       <<"c","e","n","s","o">>,
       <<"v","a","c","i'","a","s">>,
       <<"c","o","n","v","e","n","c","i","o","n","a","l","e","s">>,
       <<"M","e","d","i","a","n","a">>,
       <<"c","u","a","r","t","i","l">> >>

CACHE_TTL == 3600

\* the slice series_filtradas[:3]
LIMITE_SERIES == 3

\* ------------------------------------------------------------------------
\* JSON values: dicts keep their insertion order, as Python dicts do
\* ------------------------------------------------------------------------

Str(x) == [t |-> "str", v |-> <<x>>]

Lista(xs) == [t |-> "list", v |-> xs]

Dict(pares) == [t |-> "dict", v |-> pares]

Escalar == [t |-> "null", v |-> <<>>]

EsDict(j) == j.t = "dict"

EsLista(j) == j.t = "list"

\* truth value of a JSON value, as Python's bool()
Verdadero(j) == j.v # <<>>

Claves(pares) == [i \in 1..Len(pares) |-> pares[i][1]]

TieneClave(pares, c) == \E i \in 1..Len(pares) : pares[i][1] = c

Valor(pares, c) == pares[CHOOSE i \in 1..Len(pares) : pares[i][1] = c][2]

\* d[c] = v on an insertion-ordered dict
Poner(pares, c, v) ==
    IF TieneClave(pares, c)
    THEN [i \in 1..Len(pares) |-> IF pares[i][1] = c THEN <<c, v>> ELSE pares[i]]
    ELSE Append(pares, <<c, v>>)

CLAVE_ERROR == <<"e","r","r","o","r">>

\* {"error": str(e)}
MarcaError(msg) == Dict(<< <<CLAVE_ERROR, Str(msg)>> >>)

EsMarcaError(j) ==
    /\ EsDict(j)
    /\ Len(j.v) = 1
    /\ j.v[1][1] = CLAVE_ERROR
    /\ j.v[1][2].t = "str"


\* ------------------------------------------------------------------------
\* The remote service: what SERIES_TABLA/<tabla> and DATOS_SERIE/<cod> answer
\* ------------------------------------------------------------------------

Ibi == <<"I","b","i">>

IbiMinuscula == <<"i","b","i">>

IbiTotal == <<"I","b","i","."," ","T","o","t","a","l">>

IbiCentro == <<"I","B","I'"," ","c","e","n","t","r","o">>

IbiHombres == <<"I","b","i"," ","-"," ","h","o","m","b","r","e","s">>

IbiMujeres == <<"I","b","i"," ","-"," ","m","u","j","e","r","e","s">>

IbiCenso == <<"I","b","i","."," ","C","E","N","S","O">>

IbiVacias == <<"I","b","i"," ","v","a","c","I'","a","s">>

Tibi == <<"T","i","b","i","."," ","T","o","t","a","l">>

VallDeIbi == <<"V","a","l","l"," ","d","e"," ","I","b","i">>

\* one record of a listing; a record without "COD" has COD = ""
Serie(cod, nombre) == [COD |-> cod, Nombre |-> nombre]

\* a table with more matching series than the limit, among others
ListadosLimite ==
    << << Serie("P0", VallDeIbi), Serie("P1", Ibi), Serie("P2", IbiCenso),
          Serie("P3", IbiTotal), Serie("P4", IbiCentro), Serie("P5", IbiHombres),
          Serie("P6", IbiMujeres) >>,
       << Serie("U1", Tibi) >>,
       << >>,
       << Serie("S1", IbiVacias) >> >>

\* series in two tables, one of them after a record without code
ListadosVarias ==
    << << Serie("P1", Ibi) >>,
       << Serie("U1", Tibi) >>,
       << Serie("", IbiCentro), Serie("H2", IbiHombres) >>,
       << >> >>

\* two series of one table bear the same name
ListadosRepetida ==
    << << >>,
       << Serie("U1", IbiTotal), Serie("U2", IbiTotal) >>,
       << Serie("H1", VallDeIbi) >>,
       << >> >>

\* no table holds a series of the municipality that survives the filter
ListadosSinSeries ==
    << << Serie("P1", Tibi) >>,
       << Serie("U1", VallDeIbi) >>,
       << >>,
       << Serie("S1", IbiCenso) >> >>

\* one series of the municipality in the first table, next to one of another
\* municipality and one the filter excludes
ListadosUna ==
    << << Serie("P0", Tibi), Serie("P1", Ibi), Serie("P2", IbiCenso) >>,
       << >>,
       << >>,
       << >> >>

\* one series of the municipality, in the second table
ListadosSegunda ==
    << << Serie("P0", Tibi) >>,
       << Serie("U1", IbiTotal) >>,
       << >>,
       << >> >>

\* A world is the listings the service holds, the tables whose listing call
\* can fail, and the endpoints (table or series codes) that never answer.
Mundo(listados, inestables) ==
    [listados |-> listados, inestables |-> inestables, mudos |-> {}]

\* the world w with the endpoints ids never answering
Enmudecer(w, ids) == [w EXCEPT !.mudos = ids]

\* the worlds of one aggregation: any listing call can fail
Mundos ==
    {Mundo(l, 1..NTablas) :
        l \in {ListadosLimite, ListadosVarias, ListadosRepetida, ListadosSinSeries}}

\* the world of a sequence of requests: the listing of the first table can fail
MundosCache == {Mundo(ListadosUna, {1})}

\* the world of the requests that can be aborted: the listing of the first
\* table can fail, the second table holds the series
MundosAborto == {Mundo(ListadosSegunda, {1})}

\* the worlds in which the listing of the second table, the data of series P1,
\* both or neither never answer
MundosMudos ==
    {Enmudecer(Mundo(ListadosUna, {1}), ids) : ids \in SUBSET {"69303", "P1"}}

\* the municipality strings of the requests: two differ only in letter case
Municipios == {Ibi, IbiMinuscula}

\* the n_last values of the requests
NLasts == {3, 5}

\* what a failing remote call raises (httpx error, non-success status)
ErroresRemotos == {"HTTPStatusError"}

Falla(msg) == [ok |-> FALSE, exc |-> msg]

Exito(json) == [ok |-> TRUE, json |-> json]

\* the answers the listing endpoint of table i can give
RespuestasListado(w, i) ==
    (IF i \in w.inestables THEN {Falla(e) : e \in ErroresRemotos} ELSE {})
        \cup {Exito(Lista(w.listados[i])), Exito(Dict(<<>>)), Exito(Escalar)}

\* the observations of series cod, n of them
Observaciones(cod, n) == Lista(<<cod, n>>)

\* the answers the data endpoint can give for series cod
RespuestasDatos(cod, n) ==
    {Falla(e) : e \in ErroresRemotos}
        \cup {Exito(Observaciones(cod, n)), Exito(Lista(<<>>)), Exito(Dict(<<>>)),
              Exito(Escalar)}

\* no timeout set on the client: a call to an endpoint that never answers
\* never ends
Desenlaces_sin_timeout(w, id, resps) == IF id \in w.mudos THEN {} ELSE resps

\* The ways a call made through httpx.AsyncClient(timeout=timeout) can end:
\* with one of the answers of the endpoint or, when the endpoint never
\* answers, with the timeout error raised once the timeout has run out.
Desenlaces(w, id, resps) ==
    IF id \in w.mudos THEN {Falla("ReadTimeout")} ELSE resps

\* ------------------------------------------------------------------------
\* The functions of main.py
\* ------------------------------------------------------------------------

\* get_json_async: raise_for_status, then "data if list or dict else []"
get_json_async(resp) ==
    IF ~resp.ok THEN resp
    ELSE IF EsLista(resp.json) \/ EsDict(resp.json) THEN resp
    ELSE Exito(Lista(<<>>))

\* get_series_municipio: the listing reduced to the series of the municipality
get_series_municipio(resp, municipio) ==
    LET r == get_json_async(resp)
    IN IF ~r.ok THEN r
       ELSE IF ~EsLista(r.json) THEN Exito(<<>>)
       ELSE Exito(SelectSeq(r.json.v,
                            LAMBDA s : coincide_municipio(s.Nombre, municipio)))

\* the keywords compared without .lower(), letter case counting
filtrar_series_sin_lower(series, excluir) ==
    IF excluir = <<>> THEN series
    ELSE SelectSeq(series,
            LAMBDA s : ~\E i \in 1..Len(excluir) : Contiene(s.Nombre, excluir[i]))

\* filtrar_series(series, excluir)
filtrar_series(series, excluir) ==
    IF excluir = <<>> THEN series
    ELSE SelectSeq(series,
            LAMBDA s : ~\E i \in 1..Len(excluir) :
                           Contiene(lower(s.Nombre), lower(excluir[i])))

\* get_datos_serie: "data if data else []"
get_datos_serie(resp) ==
    LET r == get_json_async(resp)
    IN IF ~r.ok THEN r
       ELSE IF Verdadero(r.json) THEN r ELSE Exito(Lista(<<>>))

\* s[:n]
Primeros(s, n) == SubSeq(s, 1, IF Len(s) < n THEN Len(s) ELSE n)


\* ------------------------------------------------------------------------
\* The texts handed to normalizar and coincide_municipio
\* ------------------------------------------------------------------------

\* length of the generated texts
MaxLargo == 3

\* a letter, an accented capital, a blank and a combining mark
Alfabeto == {"a", "A'", " ", "+'"}

RECURSIVE TextosDeLargo(_)
TextosDeLargo(n) ==
    IF n = 0 THEN {<<>>}
    ELSE {Append(t, c) : t \in TextosDeLargo(n - 1), c \in Alfabeto}

TextosGenerados == UNION {TextosDeLargo(n) : n \in 0..MaxLargo}

Madrid == <<"M","a","d","r","i","d">>

MadridCentro == <<"M","a","d","r","i","d"," ","c","e","n","t","r","o">>

MadridCapitalTotal ==
    <<"M","a","d","r","i","d"," ","C","a","p","i","t","a","l"," ","-"," ",
      "t","o","t","a","l">>

HumanesDeMadridTotal ==
    <<"H","u","m","a","n","e","s"," ","d","e"," ","M","a","d","r","i","d"," ",
      "-"," ","t","o","t","a","l">>

Madridejos == <<"M","a","d","r","i","d","e","j","o","s">>

MadridPunto == <<" ","M","A'","D","R","I","D",".","T","o","t","a","l">>

NombresDeEjemplo ==
    {Madrid, MadridCentro, MadridCapitalTotal, HumanesDeMadridTotal, Madridejos,
     MadridPunto}

\* the texts handed to the two functions
Entradas == TextosGenerados \cup NombresDeEjemplo

\* the municipalities handed to coincide_municipio
Buscados ==
    {Madrid, <<"m","a","d","r","i'","d"," ">>, <<"a">>, <<"A'"," ","a">>,
     <<"a","+'">>, <<" ">>, <<>>}

\* ------------------------------------------------------------------------
\* State
\* ------------------------------------------------------------------------

\* the request handlers that can be active at the same time
Manejadores == {1, 2}

\* requests served in one run
MaxPeticiones == 3

\* advances of the clock in one run
MaxTicks == 2

VARIABLES
    cache,    \* the module-level dict: municipio -> (timestamp, data)
    clock,    \* what time.time() returns
    mundo,    \* the listings the remote service holds
    npet,     \* requests started so far
    pet,      \* per handler: the frame of consulta_municipio / get_datos_municipio
    entrada,  \* the text handed to normalizar or coincide_municipio
    buscado,  \* the municipality handed to coincide_municipio
    salida    \* what the last call of one of the two returned

vars == <<cache, clock, mundo, npet, pet, entrada, buscado, salida>>

CacheVacio == [m \in {} |-> 0]

\* a task that is not done has no result: asking for it raises
TareaPendiente == [hecha |-> FALSE, res |-> [ok |-> FALSE, exc |-> "InvalidStateError"]]

TareaHecha(res) == [hecha |-> TRUE, res |-> res]

SinRespuesta == [status |-> "none"]

PetLibre ==
    [pc |-> "idle", municipio |-> <<>>, n_last |-> 0, now |-> 0,
     tareas |-> <<>>, idx |-> 0, series_filtradas |-> <<>>, k |-> 0,
     datos_tabla |-> <<>>,
     resultados |-> <<>>, llamadas |-> <<>>, ret |-> Escalar,
     respuesta |-> SinRespuesta]

SinSalida == [op |-> "none"]

ArranqueServicio ==
    /\ cache = CacheVacio
    /\ clock = 0
    /\ npet = 0
    /\ pet = [r \in Manejadores |-> PetLibre]

Arranque ==
    /\ ArranqueServicio
    /\ entrada = <<>>
    /\ buscado = <<>>
    /\ salida = SinSalida

Init == Arranque /\ mundo \in Mundos

InitCache == Arranque /\ mundo \in MundosCache

InitAborto == Arranque /\ mundo \in MundosAborto

InitMudos == Arranque /\ mundo \in MundosMudos

\* ------------------------------------------------------------------------
\* get_datos_municipio and consulta_municipio
\* ------------------------------------------------------------------------

\* the key made of the municipality and n_last
Clave_con_n_last(municipio, n_last) == Append(municipio, ToString(n_last))

\* the key of a request in the cache: "municipio in cache", "cache[municipio]"
Clave(municipio, n_last) == municipio

\* the time to live taken in minutes instead of seconds
CacheVigente_en_minutos(c, m, t) ==
    /\ m \in DOMAIN c
    /\ t - c[m].timestamp < CACHE_TTL \div 60

\* an entry of exactly CACHE_TTL seconds still served
CacheVigente_inclusive(c, m, t) ==
    /\ m \in DOMAIN c
    /\ t - c[m].timestamp <= CACHE_TTL

\* "municipio in cache" and "now - timestamp < CACHE_TTL"
CacheVigente(c, m, t) ==
    /\ m \in DOMAIN c
    /\ t - c[m].timestamp < CACHE_TTL

\* time.time() read again at the store
SelloDeTiempo_al_guardar(now, reloj) == reloj

\* the timestamp of the entry a request stores: its local "now", read by
\* time.time() before the cache lookup, whatever the clock says at the store
SelloDeTiempo(now, reloj) == now

\* a result is stored only when it holds no error marker
Guardar_solo_sin_errores(c, m, t, datos) ==
    IF \E i \in 1..Len(datos.v) :
          \/ EsMarcaError(datos.v[i][2])
          \/ \E k \in 1..Len(datos.v[i][2].v) : EsMarcaError(datos.v[i][2].v[k][2])
    THEN c
    ELSE [x \in DOMAIN c \cup {m} |->
             IF x = m THEN [timestamp |-> t, data |-> datos] ELSE c[x]]

\* cache.setdefault(municipio, (now, resultados)): the first writer wins
Guardar_si_falta(c, m, t, datos) ==
    IF m \in DOMAIN c THEN c
    ELSE [x \in DOMAIN c \cup {m} |->
             IF x = m THEN [timestamp |-> t, data |-> datos] ELSE c[x]]

\* cache[municipio] = (now, resultados)
Guardar(c, m, t, datos) ==
    [x \in DOMAIN c \cup {m} |->
        IF x = m THEN [timestamp |-> t, data |-> datos] ELSE c[x]]

\* The remote calls a request has issued, in the order of issue: the endpoint,
\* the table or series code, the nult parameter, the table whose loop issued
\* it, the position and the name of the series in series_filtradas, and
\* whether the call is in flight ("pendiente"), has returned ("ok") or has
\* failed ("fallo").
LlamadaListado(i) ==
    [url |-> "SERIES_TABLA", id |-> TABLAS_MUNICIPALES[i].tabla, nult |-> 0,
     idx |-> i, k |-> 0, nombre |-> <<>>, estado |-> "pendiente"]

LlamadaDatos(s, n, i, j) ==
    [url |-> "DATOS_SERIE", id |-> s.COD, nult |-> n, idx |-> i, k |-> j,
     nombre |-> s.Nombre, estado |-> "pendiente"]

\* call number j has ended with the response resp
Anotar(llamadas, j, resp) ==
    [llamadas EXCEPT ![j].estado = IF resp.ok THEN "ok" ELSE "fallo"]

\* the last task left out of the gather: asyncio.gather(*tareas[:-1])
Reunidas_sin_la_ultima(tareas) ==
    \A i \in 1..(Len(tareas) - 1) : tareas[i].hecha

\* "await asyncio.gather(*tareas)" returns when every task is done
Reunidas(tareas) == \A i \in 1..Len(tareas) : tareas[i].hecha

\* gather without return_exceptions: the first exception is raised
gather_sin_return_exceptions(ts) ==
    IF \E i \in 1..Len(ts) : ~ts[i].res.ok
    THEN [raise |-> TRUE,
          exc |-> ts[CHOOSE i \in 1..Len(ts) :
                        /\ ~ts[i].res.ok
                        /\ \A j \in 1..(i - 1) : ts[j].res.ok].res.exc]
    ELSE [raise |-> FALSE, v |-> [i \in 1..Len(ts) |-> ts[i].res]]

\* asyncio.gather(*tareas, return_exceptions=True): the results in task order,
\* a failed task giving its exception as a value
gather(ts) ==
    [raise |-> FALSE, v |-> [i \in 1..Len(ts) |-> ts[i].res]]

\* the slice forgotten: the inner loop runs over all of series_filtradas
Seleccion_sin_limite(series_filtradas) == series_filtradas

\* the slice series_filtradas[:3] the inner loop runs over
Seleccion(series_filtradas) == Primeros(series_filtradas, LIMITE_SERIES)

\* the test inverted: the series that have code and name are skipped
SinCodigoONombre_invertida(s) == ~(s.COD = "" \/ s.Nombre = <<>>)

\* "if not cod or not nombre: continue"
SinCodigoONombre(s) == s.COD = "" \/ s.Nombre = <<>>

\* the failure of a fetch recorded as an empty observation list
ValorSerie_traga_error(res) ==
    IF res.ok THEN [raise |-> FALSE, v |-> res.json]
    ELSE [raise |-> FALSE, v |-> Lista(<<>>)]

\* no try/except: the failure of a fetch leaves get_datos_municipio
ValorSerie_sin_try(res) ==
    IF res.ok THEN [raise |-> FALSE, v |-> res.json]
    ELSE [raise |-> TRUE, exc |-> res.exc]

\* the try/except around "await get_datos_serie"
ValorSerie(res) ==
    IF res.ok THEN [raise |-> FALSE, v |-> res.json]
    ELSE [raise |-> FALSE, v |-> MarcaError(res.exc)]

\* "if isinstance(series, Exception): resultados[indicador] = {'error': str(series)}"
ValorTablaFallida(res) == MarcaError(res.exc)

\* the indicator names taken in the reverse of the configuration order
IndicadorDe_invertido(i) == TABLAS_MUNICIPALES[NTablas + 1 - i].indicador

\* the indicator whose results stand at position i of todas_series
IndicadorDe(i) == TABLAS_MUNICIPALES[i].indicador

\* The two loops of get_datos_municipio, run up to the next
\* "await get_datos_serie" or to the end of the outer loop.  EntrarTabla is the
\* head of the outer loop at table i; SeguirTabla is the head of the inner loop
\* at position j of series_filtradas[:3].
Parada(fin, i, sf, j, dt, res) ==
    [fin |-> fin, idx |-> i, series_filtradas |-> sf, k |-> j,
     datos_tabla |-> dt, resultados |-> res]

RECURSIVE EntrarTabla(_, _, _, _, _)
RECURSIVE SeguirTabla(_, _, _, _, _, _)

EntrarTabla(todas, i, sf, dt, res) ==
    IF i > Len(todas) THEN Parada(TRUE, i, sf, 0, dt, res)
    ELSE IF ~todas[i].ok
    THEN EntrarTabla(todas, i + 1, sf, dt,
                     Poner(res, IndicadorDe(i), ValorTablaFallida(todas[i])))
    ELSE SeguirTabla(todas, i, filtrar_series(todas[i].json, FILTRO_EXCLUIR), 1,
                     <<>>, res)

SeguirTabla(todas, i, sf, j, dt, res) ==
    IF j > Len(Seleccion(sf))
    THEN EntrarTabla(todas, i + 1, sf, dt, Poner(res, IndicadorDe(i), Dict(dt)))
    ELSE IF SinCodigoONombre(Seleccion(sf)[j])
    THEN SeguirTabla(todas, i, sf, j + 1, dt, res)
    ELSE Parada(FALSE, i, sf, j, dt, res)

\* the body of consulta_municipio around the call of get_datos_municipio
consulta_municipio(m, r) ==
    IF r.raise THEN [status |-> "error", message |-> r.exc]
    ELSE IF ~Verdadero(r.v)
    THEN [status |-> "warning", message |-> <<"No se encontraron series para", m>>]
    ELSE [status |-> "ok", municipio |-> m, n_series |-> Len(r.v.v), datos |-> r.v]

\* the series whose fetch is awaited by a frame at pc = "fetch"
SerieActual(p) == Seleccion(p.series_filtradas)[p.k]

\* the frame after the loops have advanced to the stop st
Proseguir(p, st) ==
    LET q == [p EXCEPT !.idx = st.idx, !.series_filtradas = st.series_filtradas,
                       !.k = st.k, !.datos_tabla = st.datos_tabla,
                       !.resultados = st.resultados]
    IN IF st.fin
       THEN [q EXCEPT !.pc = "done",
                      !.ret = Dict(st.resultados),
                      !.respuesta = consulta_municipio(p.municipio,
                                      [raise |-> FALSE, v |-> Dict(st.resultados)])]
       ELSE [q EXCEPT !.pc = "fetch",
                      !.llamadas = Append(p.llamadas,
                                     LlamadaDatos(SerieActual(q), p.n_last, st.idx, st.k))]

\* an exception leaves get_datos_municipio: consulta_municipio answers "error"
Propagar(p, exc) ==
    [p EXCEPT !.pc = "done",
              !.respuesta = consulta_municipio(p.municipio, [raise |-> TRUE, exc |-> exc])]

\* handler r is between its cache lookup and its store
EnCurso(r) == pet[r].pc \in {"gather", "fetch"}

\* GET /municipio/{m}?n_last=n arrives: the cache check, then the four tasks
Llamar(r, m, n) ==
    /\ pet[r].pc = "idle"
    /\ npet' = npet + 1
    /\ IF CacheVigente(cache, Clave(m, n), clock)
       THEN pet' = [pet EXCEPT ![r] =
                [@ EXCEPT !.pc = "done", !.municipio = m, !.n_last = n, !.now = clock,
                          !.ret = cache[Clave(m, n)].data,
                          !.respuesta = consulta_municipio(m,
                                            [raise |-> FALSE, v |-> cache[Clave(m, n)].data])]]
       ELSE pet' = [pet EXCEPT ![r] =
                [@ EXCEPT !.pc = "gather", !.municipio = m, !.n_last = n, !.now = clock,
                          !.tareas = [i \in 1..NTablas |-> TareaPendiente],
                          !.llamadas = [i \in 1..NTablas |-> LlamadaListado(i)]]]
    /\ UNCHANGED <<entrada, buscado, salida, cache, clock, mundo>>

\* the listing call of task i returns or fails
TareaTermina(r, i) ==
    /\ pet[r].pc = "gather"
    /\ ~pet[r].tareas[i].hecha
    /\ \E resp \in Desenlaces(mundo, TABLAS_MUNICIPALES[i].tabla,
                             RespuestasListado(mundo, i)) :
         pet' = [pet EXCEPT ![r].tareas[i] =
                                TareaHecha(get_series_municipio(resp, pet[r].municipio)),
                            ![r].llamadas = Anotar(@, i, resp)]
    /\ UNCHANGED <<entrada, buscado, salida, cache, clock, mundo, npet>>

\* the frame and the cache once the loops have stopped at st
Continuar(r, p, st) ==
    /\ pet' = [pet EXCEPT ![r] = Proseguir(p, st)]
    /\ cache' = IF st.fin
                THEN Guardar(cache, Clave(p.municipio, p.n_last),
                             SelloDeTiempo(p.now, clock), Dict(st.resultados))
                ELSE cache

\* every task is done: gather returns and the loops start
Gather(r) ==
    /\ pet[r].pc = "gather"
    /\ Reunidas(pet[r].tareas)
    /\ LET g == gather(pet[r].tareas)
       IN IF g.raise
          THEN /\ pet' = [pet EXCEPT ![r] = Propagar(@, g.exc)]
               /\ cache' = cache
          ELSE Continuar(r, pet[r], EntrarTabla(g.v, 1, <<>>, <<>>, <<>>))
    /\ UNCHANGED <<entrada, buscado, salida, clock, mundo, npet>>

\* the awaited get_datos_serie returns or fails
SerieTermina(r) ==
    /\ pet[r].pc = "fetch"
    /\ LET p0 == pet[r]
           s == SerieActual(p0)
       IN \E resp \in Desenlaces(mundo, s.COD, RespuestasDatos(s.COD, p0.n_last)) :
            LET p == [p0 EXCEPT !.llamadas = Anotar(@, Len(@), resp)]
                val == ValorSerie(get_datos_serie(resp))
            IN IF val.raise
               THEN /\ pet' = [pet EXCEPT ![r] = Propagar(p, val.exc)]
                    /\ cache' = cache
               ELSE Continuar(r, p,
                        SeguirTabla(gather(p.tareas).v, p.idx, p.series_filtradas,
                                    p.k + 1, Poner(p.datos_tabla, s.Nombre, val.v),
                                    p.resultados))
    /\ UNCHANGED <<entrada, buscado, salida, clock, mundo, npet>>

\* the response has been sent: the handler is free again
Responder(r) ==
    /\ pet[r].pc = "done"
    /\ pet' = [pet EXCEPT ![r] = PetLibre]
    /\ UNCHANGED <<entrada, buscado, salida, cache, clock, mundo, npet>>

\* asyncio.CancelledError taken for an Exception, as before Python 3.8: the
\* "except Exception" around the fetch catches it and records its text
ValorCancelacion_atrapada(exc) == [raise |-> FALSE, v |-> MarcaError(exc)]

\* what "except Exception as e" around "await get_datos_serie" makes of the
\* CancelledError raised at the await: a BaseException, it is not caught
ValorCancelacion(exc) == [raise |-> TRUE, exc |-> exc]

\* the calls in flight are cancelled with the coroutine that awaits them
Cancelar(llamadas) ==
    [j \in 1..Len(llamadas) |->
        IF llamadas[j].estado = "pendiente"
        THEN [llamadas[j] EXCEPT !.estado = "cancelada"]
        ELSE llamadas[j]]

\* CancelledError leaves get_datos_municipio and consulta_municipio, whose
\* "except Exception" does not catch it: no response is made
Cancelada(p) ==
    [p EXCEPT !.pc = "cancelled", !.llamadas = Cancelar(p.llamadas),
              !.tareas = <<>>, !.series_filtradas = <<>>]

\* the caller aborts the request of handler r: its task is cancelled, and
\* CancelledError is raised at the await where the coroutine stands, the
\* gather of the listings or the fetch of a series
Abortar(r) ==
    /\ EnCurso(r)
    /\ IF pet[r].pc = "gather"
       THEN /\ pet' = [pet EXCEPT ![r] = Cancelada(@)]
            /\ cache' = cache
       ELSE LET p == [pet[r] EXCEPT !.llamadas = Cancelar(@)]
                val == ValorCancelacion("CancelledError")
            IN IF val.raise
               THEN /\ pet' = [pet EXCEPT ![r] = Cancelada(p)]
                    /\ cache' = cache
               ELSE Continuar(r, p,
                        SeguirTabla(gather(p.tareas).v, p.idx, p.series_filtradas,
                                    p.k + 1,
                                    Poner(p.datos_tabla, SerieActual(p).Nombre, val.v),
                                    p.resultados))
    /\ UNCHANGED <<entrada, buscado, salida, clock, mundo, npet>>

\* the cancelled coroutine is gone: the handler is free again
Desechar(r) ==
    /\ pet[r].pc = "cancelled"
    /\ pet' = [pet EXCEPT ![r] = PetLibre]
    /\ UNCHANGED <<entrada, buscado, salida, cache, clock, mundo, npet>>

\* the clock advances by half the time to live
PasoReloj == CACHE_TTL \div 2

\* time passes
Tick ==
    /\ clock + PasoReloj <= MaxTicks * PasoReloj
    /\ clock' = clock + PasoReloj
    /\ UNCHANGED <<entrada, buscado, salida, cache, mundo, npet, pet>>

\* a request arrives at handler r, the max-th of the run at most
Llegada(r, max) ==
    /\ npet < max
    /\ \E m \in Municipios, n \in NLasts : Llamar(r, m, n)

Paso(r) ==
    \/ \E i \in 1..NTablas : TareaTermina(r, i)
    \/ Gather(r)
    \/ SerieTermina(r)
    \/ Responder(r)

\* one aggregation: a single request on the empty cache
Next == Llegada(1, 1) \/ Paso(1) \/ Tick

Spec == Init /\ [][Next]_vars

\* a sequence of requests served one after another
NextCache == Llegada(1, MaxPeticiones) \/ Paso(1) \/ Tick

SpecCache == InitCache /\ [][NextCache]_vars

\* two handlers at work at the same time, as many requests as handlers
NextConc ==
    \/ \E r \in Manejadores : Llegada(r, Cardinality(Manejadores))
    \/ \E r \in Manejadores : Paso(r)
    \/ Tick

SpecConc == InitCache /\ [][NextConc]_vars

\* Every remote call ends (each carries its timeout), and the event loop
\* resumes a coroutine whose awaited tasks are done.
Justicia ==
    /\ \A i \in 1..NTablas : WF_vars(TareaTermina(1, i))
    /\ WF_vars(Gather(1))
    /\ WF_vars(SerieTermina(1))

\* one aggregation against a service some of whose endpoints never answer
SpecVivo == InitMudos /\ [][Next]_vars /\ Justicia

\* normalizar is applied to the text, and its result is the text from then on
Normalizar ==
    /\ entrada' = normalizar(entrada)
    /\ salida' = [op |-> "normalizar", v |-> normalizar(entrada)]
    /\ UNCHANGED <<cache, clock, mundo, npet, pet, buscado>>

\* coincide_municipio is applied to the text and the municipality
Coincidir ==
    /\ salida' = [op |-> "coincide", v |-> coincide_municipio(entrada, buscado)]
    /\ UNCHANGED <<cache, clock, mundo, npet, pet, entrada, buscado>>

InitTexto ==
    /\ ArranqueServicio
    /\ mundo \in MundosCache
    /\ entrada \in Entradas
    /\ buscado \in Buscados
    /\ salida = SinSalida

NextTexto == Normalizar \/ Coincidir

\* the two text functions applied to the texts
SpecTexto == InitTexto /\ [][NextTexto]_vars

\* a sequence of requests, each of which its caller can abort
NextAborto ==
    \/ Llegada(1, MaxPeticiones)
    \/ Paso(1)
    \/ Abortar(1)
    \/ Desechar(1)
    \/ Tick

SpecAborto == InitAborto /\ [][NextAborto]_vars


\* ------------------------------------------------------------------------
\* Properties
\* ------------------------------------------------------------------------

\* in this step handler r takes a request: get_datos_municipio starts
Llega(r) == pet[r].pc = "idle" /\ pet'[r].pc # "idle"

\* in this step get_datos_municipio of handler r returns after an aggregation
Termina(r) == pet[r].pc \in {"gather", "fetch"} /\ pet'[r].pc = "done"

\* the request of handler r was answered from the cache
DesdeCache(r) == pet[r].pc = "done" /\ pet[r].llamadas = <<>>

\* C1: a request whose exact municipality string is a key of the cache, with
\* (time at the start of the request) - (timestamp of the entry) < 3600,
\* returns the stored value, issues no remote call and leaves the cache as it
\* is; a request whose string is no key of the cache is never answered from
\* the cache, whatever other keys (such as the string in another letter case)
\* the cache holds.
C1_AciertoDeCache ==
    [][\A r \in Manejadores :
         Llega(r) =>
            LET m == pet'[r].municipio
            IN /\ (m \in DOMAIN cache /\ clock - cache[m].timestamp < 3600) =>
                     /\ pet'[r].pc = "done"
                     /\ pet'[r].ret = cache[m].data
                     /\ pet'[r].llamadas = <<>>
                     /\ cache' = cache
               /\ m \notin DOMAIN cache =>
                     /\ pet'[r].pc = "gather"
                     /\ Len(pet'[r].llamadas) = 4]_vars

\* a request answered from an entry stored earlier, while the cache also
\* holds an entry under the same name in another letter case
C1_Testigo ==
    \E r \in Manejadores :
        /\ DesdeCache(r)
        /\ DOMAIN cache = {Ibi, IbiMinuscula}
        /\ pet[r].now - cache[pet[r].municipio].timestamp > 0
        /\ pet[r].ret = cache[pet[r].municipio].data
        /\ cache[Ibi].data # cache[IbiMinuscula].data

\* C2: a request that finds no entry under its key, or one with
\* now - timestamp >= 3600, runs the aggregation again (the four listing
\* calls are issued); when the aggregation ends, the entry of the key holds
\* the new result, which is the value returned; and no step removes a key
\* from the cache or changes the entry of a key other than by such a store.
C2_FalloDeCache ==
    [][/\ \A r \in Manejadores :
            /\ Llega(r) =>
                 LET m == pet'[r].municipio
                 IN (m \notin DOMAIN cache \/ clock - cache[m].timestamp >= 3600) =>
                        /\ pet'[r].pc = "gather"
                        /\ Len(pet'[r].llamadas) = 4
                        /\ \A i \in 1..4 :
                              /\ pet'[r].llamadas[i].url = "SERIES_TABLA"
                              /\ pet'[r].llamadas[i].estado = "pendiente"
                        /\ cache' = cache
            /\ Termina(r) =>
                 /\ pet[r].municipio \in DOMAIN cache'
                 /\ cache'[pet[r].municipio].data = pet'[r].ret
                 /\ pet'[r].ret = Dict(pet'[r].resultados)
                 /\ pet'[r].respuesta.status # "error"
       /\ DOMAIN cache \subseteq DOMAIN cache'
       /\ \A x \in DOMAIN cache :
            cache'[x] # cache[x] => \E r \in Manejadores :
                                        Termina(r) /\ pet[r].municipio = x]_vars

\* the second request for a key has recomputed and overwritten an entry that
\* had expired
C2_Testigo ==
    \E r \in Manejadores :
        /\ pet[r].pc = "done"
        /\ pet[r].llamadas # <<>>
        /\ npet = 2
        /\ DOMAIN cache = {pet[r].municipio}
        /\ pet[r].now >= 3600
        /\ cache[pet[r].municipio] = [timestamp |-> pet[r].now, data |-> pet[r].ret]


\* the series of a listing result whose observations the loops fetch
Elegidas(series) ==
    SelectSeq(Primeros(filtrar_series(series, FILTRO_EXCLUIR), 3),
              LAMBDA x : x.COD # "" /\ x.Nombre # <<>>)

\* the calls of the data endpoint a frame has issued from the loop of table i
LlamadasDatos(p, i) ==
    SelectSeq(p.llamadas, LAMBDA c : c.url = "DATOS_SERIE" /\ c.idx = i)

\* the name of the series a call of the data endpoint is about
NombreDe(p, c) == c.nombre

\* the request of handler r has been answered after an aggregation
Agregada(r) == pet[r].pc = "done" /\ pet[r].llamadas # <<>>

\* the value a finished aggregation gives indicator number i
ValorIndicador(p, i) == Valor(p.ret.v, TABLAS_MUNICIPALES[i].indicador)

UltimaDelNombre(p, c) ==
    LET ds == LlamadasDatos(p, c.idx)
        n == CHOOSE n \in 1..Len(ds) :
                /\ NombreDe(p, ds[n]) = NombreDe(p, c)
                /\ \A o \in (n + 1)..Len(ds) : NombreDe(p, ds[o]) # NombreDe(p, c)
    IN ds[n]

\* every selected series with a code of every listed table has been fetched
TodasBuscadas(p) ==
    \A i \in 1..4 :
        p.llamadas[i].estado = "ok" =>
            LET e == Elegidas(p.tareas[i].res.json)
                ds == LlamadasDatos(p, i)
            IN /\ Len(ds) = Len(e)
               /\ \A n \in 1..Len(e) : ds[n].id = e[n].COD /\ ds[n].estado # "pendiente"

\* C4 as stated: the name of a series whose fetch failed is mapped to an
\* error marker in the map of its indicator, which is no table-level marker,
\* and every other selected series is fetched and recorded.
C4_Original ==
    \A r \in Manejadores :
        Agregada(r) =>
            LET p == pet[r]
            IN /\ TodasBuscadas(p)
               /\ \A c \in Rango(p.llamadas) :
                    (c.url = "DATOS_SERIE" /\ c.estado = "fallo") =>
                        LET v == ValorIndicador(p, c.idx)
                        IN /\ EsDict(v) /\ ~EsMarcaError(v)
                           /\ TieneClave(v.v, NombreDe(p, c))
                           /\ EsMarcaError(Valor(v.v, NombreDe(p, c)))

\* C4 (amended): the map of an indicator is keyed by series name, so the
\* entry of a name holds the outcome of the last selected series of the table
\* that bears it: an error marker exactly when that fetch failed.  The fetch
\* of every other selected series still takes place and is recorded, and the
\* indicator is never turned into a table-level marker.
C4_FalloDeSerie ==
    \A r \in Manejadores :
        Agregada(r) =>
            LET p == pet[r]
            IN /\ EsDict(p.ret)
               /\ TodasBuscadas(p)
               /\ \A c \in Rango(p.llamadas) :
                    c.url = "DATOS_SERIE" =>
                        LET v == ValorIndicador(p, c.idx)
                        IN /\ EsDict(v) /\ ~EsMarcaError(v)
                           /\ TieneClave(v.v, NombreDe(p, c))
                           /\ EsMarcaError(Valor(v.v, NombreDe(p, c)))
                                <=> UltimaDelNombre(p, c).estado = "fallo"

\* in one table a fetch failed and the fetch of a later series with another
\* name returned its observations; both are in the map of the indicator
C4_Testigo ==
    \E r \in Manejadores :
        /\ Agregada(r)
        /\ \E i \in 1..4 :
             LET ds == LlamadasDatos(pet[r], i)
                 v == ValorIndicador(pet[r], i)
             IN /\ Len(ds) >= 2
                /\ ds[1].estado = "fallo"
                /\ ds[2].estado = "ok"
                /\ Len(v.v) >= 2
                /\ EsMarcaError(v.v[1][2])
                /\ EsLista(v.v[2][2]) /\ v.v[2][2].v # <<>>

\* C5: whatever remote calls fail, get_datos_municipio returns a result (it
\* does not raise) and the endpoint answers with status "ok" and that result,
\* never with status "error".
C5_SinExcepcion ==
    \A r \in Manejadores :
        pet[r].pc = "done" =>
            /\ pet[r].respuesta.status = "ok"
            /\ EsDict(pet[r].ret)
            /\ pet[r].respuesta.datos = pet[r].ret
            /\ pet[r].respuesta.n_series = 4
            /\ pet[r].municipio \in DOMAIN cache

\* a listing call and a series fetch have failed in one request, answered "ok"
C5_Testigo ==
    \E r \in Manejadores :
        /\ Agregada(r)
        /\ pet[r].respuesta.status = "ok"
        /\ \E c \in Rango(pet[r].llamadas) : c.url = "SERIES_TABLA" /\ c.estado = "fallo"
        /\ \E c \in Rango(pet[r].llamadas) : c.url = "DATOS_SERIE" /\ c.estado = "fallo"

\* C6 as stated: when every listing call succeeds and no table has a series
\* of the municipality left after the filter, the endpoint answers with
\* status "warning".
C6_Original ==
    \A r \in Manejadores :
        ( /\ Agregada(r)
          /\ \A i \in 1..4 :
               /\ pet[r].llamadas[i].estado = "ok"
               /\ filtrar_series(pet[r].tareas[i].res.json, FILTRO_EXCLUIR) = <<>> )
        => pet[r].respuesta.status = "warning"


CLAVES_INDICADORES ==
    <<"poblacion_municipio", "indicadores_urbanos", "hogares_vivienda",
      "superficie_uso_suelo">>

\* a name holds one of the configured exclusion keywords, letter case aside
Excluido(nombre) ==
    \E n \in 1..Len(FILTRO_EXCLUIR) : Contiene(lower(nombre), lower(FILTRO_EXCLUIR[n]))

\* the records of the listing of table i, as the service holds it, that are
\* of municipality m and hold no exclusion keyword
Candidatas(w, i, m) ==
    SelectSeq(w.listados[i],
              LAMBDA x : coincide_municipio(x.Nombre, m) /\ ~Excluido(x.Nombre))

\* the first position of a name in a listing
PrimeraPosicion(listado, nombre) ==
    CHOOSE n \in 1..Len(listado) :
        /\ listado[n].Nombre = nombre
        /\ \A o \in 1..(n - 1) : listado[o].Nombre # nombre

\* C7: the keys of every computed result are the four configured indicator
\* names in configuration order, whichever listing calls fail and in whatever
\* order they end, so that n_series of an "ok" response is 4; the series keys
\* of an indicator stand in the order of the remote listing.
C7_OrdenDeClaves ==
    \A r \in Manejadores :
        Agregada(r) =>
            LET p == pet[r]
            IN /\ EsDict(p.ret)
               /\ Claves(p.ret.v) = CLAVES_INDICADORES
               /\ p.respuesta.status = "ok" => p.respuesta.n_series = 4
               /\ \A i \in 1..4 :
                    LET v == p.ret.v[i][2]
                    IN p.llamadas[i].estado = "ok" =>
                          \A a, b \in 1..Len(v.v) :
                             a < b => PrimeraPosicion(mundo.listados[i], v.v[a][1])
                                        < PrimeraPosicion(mundo.listados[i], v.v[b][1])

\* a result with a failed table before a table that has several series
C7_Testigo ==
    \E r \in Manejadores :
        /\ Agregada(r)
        /\ pet[r].respuesta.status = "ok"
        /\ \E i \in 1..4 : pet[r].llamadas[i].estado = "fallo"
        /\ \E i \in 1..4 : pet[r].llamadas[i].estado = "ok" /\ Len(pet[r].ret.v[i][2].v) >= 2

\* C8: a request issues at most 3 observation fetches per table, each for one
\* of the first 3 records of the remote listing that are of the municipality
\* and hold no exclusion keyword; the map of the indicator has at most 3
\* entries, all of them names of those records.
C8_LimitePorTabla ==
    \A r \in Manejadores :
        pet[r].pc # "idle" =>
            \A i \in 1..4 :
                LET p == pet[r]
                    ds == LlamadasDatos(p, i)
                    tres == Primeros(Candidatas(mundo, i, p.municipio), 3)
                IN /\ Len(ds) <= 3
                   /\ \A n \in 1..Len(ds) :
                        \E x \in Rango(tres) : x.COD = ds[n].id /\ x.Nombre = ds[n].nombre
                   /\ (Agregada(r) /\ p.llamadas[i].estado = "ok") =>
                        /\ Len(p.ret.v[i][2].v) <= 3
                        /\ Rango(Claves(p.ret.v[i][2].v))
                              \subseteq {x.Nombre : x \in Rango(tres)}

\* a table that lists more than 3 series to select has had 3 fetches and has
\* 3 entries
C8_Testigo ==
    \E r \in Manejadores :
        /\ Agregada(r)
        /\ \E i \in 1..4 :
             /\ Len(Candidatas(mundo, i, pet[r].municipio)) > 3
             /\ Len(LlamadasDatos(pet[r], i)) = 3
             /\ Len(pet[r].ret.v[i][2].v) = 3

\* C9: every series name that is a key of the map of an indicator, in a
\* result just computed or answered from the cache, is accepted by
\* coincide_municipio for the municipality of the request and holds no
\* exclusion keyword, letter case aside; and filtrar_series with no keyword
\* returns the series it is given.
C9_SeriesDelMunicipio ==
    /\ \A r \in Manejadores :
         (pet[r].pc = "done" /\ EsDict(pet[r].ret)) =>
             \A i \in 1..Len(pet[r].ret.v) :
                 LET v == pet[r].ret.v[i][2]
                 IN ~EsMarcaError(v) =>
                       \A n \in 1..Len(v.v) :
                           /\ coincide_municipio(v.v[n][1], pet[r].municipio)
                           /\ ~Excluido(v.v[n][1])
    /\ \A i \in 1..4 : filtrar_series(mundo.listados[i], <<>>) = mundo.listados[i]

\* a request answered from the cache with an entry that has a series
C9_Testigo ==
    \E r \in Manejadores :
        /\ DesdeCache(r)
        /\ \E i \in 1..4 :
             LET v == pet[r].ret.v[i][2] IN ~EsMarcaError(v) /\ v.v # <<>>

\* every selected series with a code of every listed table has been asked for
TodasLanzadas(p) ==
    \A i \in 1..4 :
        p.llamadas[i].estado = "ok" =>
            Len(LlamadasDatos(p, i)) = Len(Elegidas(p.tareas[i].res.json))

C11_SinVueloUnico ==
    [][\A r \in Manejadores :
         /\ (Llega(r) /\ \E o \in Manejadores \ {r} :
                             EnCurso(o) /\ pet[o].municipio = pet'[r].municipio) =>
                 LET m == pet'[r].municipio
                 IN ~(m \in DOMAIN cache /\ clock - cache[m].timestamp < 3600) =>
                       /\ pet'[r].pc = "gather"
                       /\ Len(pet'[r].llamadas) = 4
                       /\ \A i \in 1..4 :
                             /\ pet'[r].llamadas[i].url = "SERIES_TABLA"
                             /\ pet'[r].llamadas[i].estado = "pendiente"
         /\ Termina(r) =>
                 /\ TodasBuscadas(pet'[r])
                 /\ pet[r].municipio \in DOMAIN cache'
                 /\ cache'[pet[r].municipio] =
                        [timestamp |-> pet[r].now, data |-> pet'[r].ret]
                 /\ \A x \in DOMAIN cache \ {pet[r].municipio} : cache'[x] = cache[x]]_vars

\* two requests for one municipality have both aggregated, with different
\* results; the one that started first has finished last, and the entry of
\* the cache is its result with its (older) start time
C11_Testigo ==
    /\ Agregada(1) /\ Agregada(2)
    /\ pet[1].municipio = pet[2].municipio
    /\ pet[1].now < pet[2].now
    /\ pet[1].ret # pet[2].ret
    /\ \E c \in Rango(pet[1].llamadas) : c.url = "DATOS_SERIE"
    /\ \E c \in Rango(pet[2].llamadas) : c.url = "DATOS_SERIE"
    /\ cache[pet[1].municipio] = [timestamp |-> pet[1].now, data |-> pet[1].ret]


\* C12: the keys of the cache are municipality strings alone, and the store
\* of a request adds or overwrites the key of its municipality, whatever its
\* n_last; a request whose municipality has an entry younger than 3600
\* seconds returns the stored value unchanged, whatever n_last it carries and
\* whatever n_last the entry was computed with, and issues no remote call
\* (hence none with its own n_last).
C12_ClaveSinNLast ==
    [][/\ DOMAIN cache' \subseteq Municipios
       /\ \A r \in Manejadores :
            /\ Termina(r) => DOMAIN cache' = DOMAIN cache \cup {pet[r].municipio}
            /\ Llega(r) =>
                 LET m == pet'[r].municipio
                 IN (m \in DOMAIN cache /\ clock - cache[m].timestamp < 3600) =>
                        /\ DesdeCache(r)'
                        /\ pet'[r].ret = cache[m].data
                        /\ \A c \in Rango(pet'[r].llamadas) : c.nult # pet'[r].n_last
                        /\ cache' = cache]_vars

\* a request with n_last = 5 has been answered from the cache with the
\* observations a request with n_last = 3 had fetched
C12_Testigo ==
    \E r \in Manejadores :
        /\ DesdeCache(r)
        /\ pet[r].n_last = 5
        /\ \E i \in 1..4 :
             LET v == pet[r].ret.v[i][2]
             IN /\ ~EsMarcaError(v)
                /\ \E k \in 1..Len(v.v) : v.v[k][2] = Observaciones("P1", 3)


\* in this step the request of handler r is aborted: its call in flight is
\* cancelled
Aborta(r) ==
    /\ EnCurso(r)
    /\ \E j \in 1..Len(pet[r].llamadas) :
         /\ pet[r].llamadas[j].estado = "pendiente"
         /\ pet'[r].llamadas[j].estado = "cancelada"

\* C13: the step that aborts a request, during the gather of the listings or
\* during a series fetch, leaves the whole cache as it is and ends the
\* request without a response and without a return value; as no step of a
\* request that is still between lookup and store changes the cache either,
\* and none follows the abort, the cache after the abort is the cache the
\* request found.
C13_AbortoSinCache ==
    [][\A r \in Manejadores :
         /\ Aborta(r) =>
               /\ cache' = cache
               /\ pet'[r].pc = "cancelled"
               /\ pet'[r].ret = Escalar
               /\ pet'[r].respuesta = SinRespuesta
         /\ EnCurso(r)' => cache' = cache
         /\ pet[r].pc = "cancelled" => cache' = cache /\ pet'[r].pc \in {"cancelled", "idle"}]_vars

\* a request aborted during a series fetch, with the first indicator already
\* in its partial result, while the cache still holds the expired entry of
\* its municipality that it was about to replace
C13_Testigo ==
    \E r \in Manejadores :
        /\ pet[r].pc = "cancelled"
        /\ \E c \in Rango(pet[r].llamadas) :
              c.url = "DATOS_SERIE" /\ c.estado = "cancelada"
        /\ pet[r].resultados # <<>>
        /\ pet[r].municipio \in DOMAIN cache
        /\ pet[r].now - cache[pet[r].municipio].timestamp >= 3600


\* a result holds an error marker, for a table or for a series
TieneMarcas(d) ==
    /\ EsDict(d)
    /\ \E i \in 1..Len(d.v) :
         \/ EsMarcaError(d.v[i][2])
         \/ EsDict(d.v[i][2]) /\ \E k \in 1..Len(d.v[i][2].v) :
                                     EsMarcaError(d.v[i][2].v[k][2])

\* no endpoint is called twice for the same table or series
SinRepetidas(llamadas) ==
    \A a, b \in 1..Len(llamadas) :
        (llamadas[a].url = llamadas[b].url /\ llamadas[a].id = llamadas[b].id) => a = b

\* C14: a request never calls the remote service twice for the same table or
\* series, so a failed unit is not retried; when an aggregation in which a
\* call failed returns, its result, error markers included, is the entry of
\* its key; an arrival that finds such an entry younger than 3600 seconds
\* returns it, markers included, without a remote call; and an arrival
\* issues remote calls only when its key has no entry or an entry of 3600
\* seconds or more.
C14_FallosEnCache ==
    [][\A r \in Manejadores :
         /\ pet'[r].pc # "idle" => SinRepetidas(pet'[r].llamadas)
         /\ (Termina(r) /\ \E c \in Rango(pet'[r].llamadas) : c.estado = "fallo") =>
               /\ TieneMarcas(pet'[r].ret)
               /\ pet[r].municipio \in DOMAIN cache'
               /\ cache'[pet[r].municipio].data = pet'[r].ret
         /\ Llega(r) =>
               LET m == pet'[r].municipio
                   vigente == m \in DOMAIN cache /\ clock - cache[m].timestamp < 3600
               IN /\ (vigente /\ TieneMarcas(cache[m].data)) =>
                        /\ DesdeCache(r)'
                        /\ pet'[r].ret = cache[m].data
                        /\ pet'[r].respuesta.datos = cache[m].data
                        /\ cache' = cache
                  /\ pet'[r].llamadas # <<>> => ~vigente]_vars

\* a later request has been answered from the cache with a result in which
\* the first table bears a table-level marker
C14_Testigo ==
    \E r \in Manejadores :
        /\ DesdeCache(r)
        /\ npet >= 2
        /\ TieneMarcas(pet[r].ret)
        /\ EsMarcaError(ValorIndicador(pet[r], 1))
        /\ pet[r].respuesta.status = "ok"


\* C15: under the assumption that every remote call ends (by its timeout at
\* the latest) every request that has started an aggregation eventually
\* returns a result and is answered with it: the gather of the listings is
\* eventually left, and every series fetch eventually ends, whichever calls
\* return, fail or run into the timeout.
C15_SiempreTermina ==
    \A r \in Manejadores :
        /\ (pet[r].pc = "gather") ~> (pet[r].pc \in {"fetch", "done"})
        /\ EnCurso(r) ~> (/\ pet[r].pc = "done"
                          /\ EsDict(pet[r].ret)
                          /\ pet[r].respuesta.status = "ok")

\* a request has returned although the listing of a table and the data of
\* its series never answered: both calls ended by the timeout
C15_Testigo ==
    \E r \in Manejadores :
        /\ Agregada(r)
        /\ \E c \in Rango(pet[r].llamadas) :
              c.url = "SERIES_TABLA" /\ c.id \in mundo.mudos /\ c.estado = "fallo"
        /\ \E c \in Rango(pet[r].llamadas) :
              c.url = "DATOS_SERIE" /\ c.id \in mundo.mudos /\ c.estado = "fallo"


\* a character that ends a word of a normalised text: a blank, or a character
\* that is replaced by a space
Separa(c) == c \in Blancos \/ ~Permitido(c)

\* the length of the first word of a text that starts with none of them
LargoPalabra(s) ==
    CHOOSE n \in 1..Len(s) :
        /\ \A i \in 1..n : ~Separa(s[i])
        /\ n = Len(s) \/ Separa(s[n + 1])

\* the words of a text, in order
RECURSIVE Palabras(_)
Palabras(s) ==
    IF s = <<>> THEN <<>>
    ELSE IF Separa(Head(s)) THEN Palabras(Tail(s))
    ELSE <<SubSeq(s, 1, LargoPalabra(s))>>
            \o Palabras(SubSeq(s, LargoPalabra(s) + 1, Len(s)))

\* a sequence of words joined by single spaces
RECURSIVE Unidas(_)
Unidas(ps) ==
    IF ps = <<>> THEN <<>>
    ELSE IF Len(ps) = 1 THEN ps[1]
    ELSE ps[1] \o <<" ">> \o Unidas(Tail(ps))

\* the processed form of a text: normalised, every disallowed character and
\* every run of blanks turned into one space, trimmed
Procesado(s) == Unidas(Palabras(normalizar(s)))

\* C16: coincide_municipio(series name, municipality) is true exactly when
\* the processed series name equals the processed municipality or starts with
\* the processed municipality followed by one space.  "Humanes de Madrid -
\* total" and "Madridejos" are rejected for "Madrid"; "Madrid", "Madrid
\* centro", "Madrid Capital - total" and " MÁDRID.Total" are accepted.
C16_CoincidenciaEstricta ==
    salida.op = "coincide" =>
        LET nombre == Procesado(entrada)
            muni == Procesado(buscado)
        IN /\ salida.v \in BOOLEAN
           /\ salida.v <=> \/ nombre = muni
                           \/ /\ Len(nombre) > Len(muni)
                              /\ SubSeq(nombre, 1, Len(muni)) = muni
                              /\ nombre[Len(muni) + 1] = " "
           /\ buscado = Madrid =>
                /\ entrada \in {HumanesDeMadridTotal, Madridejos} => ~salida.v
                /\ entrada \in {Madrid, MadridCentro, MadridCapitalTotal, MadridPunto}
                      => salida.v

\* the matcher has rejected "Humanes de Madrid - total" for "Madrid"
C16_Testigo ==
    /\ salida.op = "coincide"
    /\ salida.v = FALSE
    /\ entrada = HumanesDeMadridTotal
    /\ buscado = Madrid


\* C17 as stated: what normalizar returns is left as it is by normalizar, for
\* every text, and the empty text gives the empty text.
C17_Original ==
    salida.op = "normalizar" =>
        /\ normalizar(salida.v) = salida.v
        /\ normalizar(<<>>) = <<>>


\* C18: the entry a request has stored bears the time read at the start of
\* that request, however much time has passed until the store; no timestamp
\* of the cache is later than the present time; and a request answered from
\* the cache started less than 3600 seconds (and not before) the start of
\* the request that computed the entry.
C18_SelloDeInicio ==
    /\ \A m \in DOMAIN cache : cache[m].timestamp <= clock
    /\ \A r \in Manejadores :
         /\ Agregada(r) =>
               /\ pet[r].municipio \in DOMAIN cache
               /\ cache[pet[r].municipio].timestamp = pet[r].now
         /\ DesdeCache(r) =>
               /\ pet[r].municipio \in DOMAIN cache
               /\ pet[r].now - cache[pet[r].municipio].timestamp < 3600
               /\ pet[r].now - cache[pet[r].municipio].timestamp >= 0

\* a request during which the clock advanced has stored its entry: the
\* timestamp is its start time, earlier than the time of the store
C18_Testigo ==
    \E r \in Manejadores :
        /\ Agregada(r)
        /\ pet[r].now > 0
        /\ pet[r].now < clock
        /\ cache[pet[r].municipio].timestamp = pet[r].now


\* C19: whenever a request has issued a call of the data endpoint, each of
\* its four listing calls has ended, with a payload or with a failure, and
\* each of its four tasks is done; the listing calls are the first four
\* calls of the request.
C19_ListadosAntesDeDatos ==
    \A r \in Manejadores :
        LET p == pet[r]
        IN (\E c \in Rango(p.llamadas) : c.url = "DATOS_SERIE") =>
              /\ Len(p.llamadas) > 4
              /\ \A i \in 1..4 :
                    /\ p.llamadas[i].url = "SERIES_TABLA"
                    /\ p.llamadas[i].estado \in {"ok", "fallo"}
                    /\ p.pc = "fetch" => p.tareas[i].hecha
              /\ \A j \in 5..Len(p.llamadas) : p.llamadas[j].url = "DATOS_SERIE"

\* the first fetch of a request is in flight: a listing has failed, the other
\* three have returned
C19_Testigo ==
    \E r \in Manejadores :
        /\ pet[r].pc = "fetch"
        /\ Len(pet[r].llamadas) = 5
        /\ pet[r].llamadas[5].estado = "pendiente"
        /\ \E i \in 1..4 : pet[r].llamadas[i].estado = "fallo"
        /\ \E i \in 1..4 : pet[r].llamadas[i].estado = "ok"

====
